---- MODULE Spec2Model ----
(***************************************************************************)
(* Model of the neuron-game core: the genetic algorithm                    *)
(* (libs/genetic-algorithm: chromosome operators, roulette-wheel           *)
(* selection, GeneticAlgorithm::evolve) and the feed-forward network       *)
(* (libs/neural-network: Network/Layer/Neuron random and propagate).       *)
(*                                                                         *)
(* Numbers.  f32 genes are fixed-point integers in units of 1/RawRange,    *)
(* so that coeff * rng.gen::<f32>() is exact; network weights, biases and  *)
(* inputs are integers.  A random source is a tape of raw words and a read *)
(* position: every sampling call reads the next word of the tape.          *)
(***************************************************************************)
EXTENDS Integers, Sequences, FiniteSets, TLC

\* ---------------------------------------------------------------- bounds
\* largest population
MaxPop == 2
\* longest chromosome
MaxLen == 2
\* evolve calls of a run
MaxGenerations == 2
\* words of the caller's tape in an evolve run, read cyclically
TapeLen == 3
\* longest topology
MaxLayers == 3
\* most neurons of a layer
MaxNeurons == 2
\* most biases and weights of a network
MaxWords == 5

\* raw words a random source yields
RawValues == {0, 1}
RawRange == Cardinality(RawValues)

\* the probability 0.5 of gen_bool(0.5), as <<numerator, denominator>>
Half == <<1, 2>>
\* GaussianMutation.chance: 0.0, 0.5 and 1.0
ChanceValues == {<<0, 2>>, <<1, 2>>, <<2, 2>>}
\* GaussianMutation.coeff
CoeffValues == {0, 2}
\* the gene 1.0 in fixed point
GeneOne == RawRange

TapesOf(n) == [1..n -> RawValues]
NewRng(tape) == [tape |-> tape, pos |-> 0]

\* ------------------------------------------------------- the random source
\* RngCore::next_u32 / next_u64: the next word of the stream
NextRaw(rng) ==
    [v |-> rng.tape[(rng.pos % Len(rng.tape)) + 1],
     rng |-> [rng EXCEPT !.pos = @ + 1]]

\* Rng::gen_bool(p): Bernoulli::new(p).sample(rng); p = 1 answers true
\* without reading the stream, any other p compares one word with p
GenBool(rng, p) ==
    IF p[1] = p[2]
    THEN [v |-> TRUE, rng |-> rng]
    ELSE LET d == NextRaw(rng)
         IN [v |-> d.v * p[2] < p[1] * RawRange, rng |-> d.rng]

\* Rng::gen::<f32>(): one word, uniform in [0, 1); v is the numerator
\* over RawRange
GenF32(rng) == NextRaw(rng)

Draw(kind, gene, before, after) ==
    [kind |-> kind, gene |-> gene, words |-> after.pos - before.pos]

\* ------------------------------------------------------------- chromosome
RECURSIVE SumSeq(_)
SumSeq(s) == IF s = <<>> THEN 0 ELSE Head(s) + SumSeq(Tail(s))

\* TestIndividual::fitness of WithChromosome: the sum of the genes
Fitness(chromosome) == SumSeq(chromosome)

FitnessOf(pop) == [i \in 1..Len(pop) |-> Fitness(pop[i])]

\* ------------------------------------------------------ uniform crossover
RECURSIVE CrossoverGenes(_, _, _, _)
\* mutant: the flip picks the other parent
CrossoverGenesSwapped(rng, a, b, i) ==
    IF i > Len(a)
    THEN [child |-> <<>>, rng |-> rng, draws |-> <<>>]
    ELSE LET f == GenBool(rng, Half)
             g == IF f.v THEN b[i] ELSE a[i]
             rest == CrossoverGenes(f.rng, a, b, i + 1)
         IN [child |-> <<g>> \o rest.child,
             rng |-> rest.rng,
             draws |-> <<Draw("flip", i, rng, f.rng)>> \o rest.draws]

CrossoverGenes(rng, a, b, i) ==
    IF i > Len(a)
    THEN [child |-> <<>>, rng |-> rng, draws |-> <<>>]
    ELSE LET f == GenBool(rng, Half)
             g == IF f.v THEN a[i] ELSE b[i]
             rest == CrossoverGenes(f.rng, a, b, i + 1)
         IN [child |-> <<g>> \o rest.child,
             rng |-> rest.rng,
             draws |-> <<Draw("flip", i, rng, f.rng)>> \o rest.draws]

\* mutant: no length assertion, the zip stops at the shorter parent
UniformCrossoverTruncating(rng, parent_a, parent_b) ==
    LET n == IF Len(parent_a) < Len(parent_b) THEN Len(parent_a)
             ELSE Len(parent_b)
        r == CrossoverGenes(rng, SubSeq(parent_a, 1, n),
                            SubSeq(parent_b, 1, n), 1)
    IN [panic |-> FALSE, child |-> r.child, rng |-> r.rng,
        draws |-> r.draws]

\* mutant: the zip starts at the second gene
UniformCrossoverSkippingFirst(rng, parent_a, parent_b) ==
    IF Len(parent_a) # Len(parent_b)
    THEN [panic |-> TRUE, child |-> <<>>, rng |-> rng, draws |-> <<>>]
    ELSE LET r == CrossoverGenes(rng, parent_a, parent_b, 2)
         IN [panic |-> FALSE, child |-> r.child, rng |-> r.rng,
             draws |-> r.draws]

UniformCrossover(rng, parent_a, parent_b) ==
    IF Len(parent_a) # Len(parent_b)
    THEN [panic |-> TRUE, child |-> <<>>, rng |-> rng, draws |-> <<>>]
    ELSE LET r == CrossoverGenes(rng, parent_a, parent_b, 1)
         IN [panic |-> FALSE, child |-> r.child, rng |-> r.rng,
             draws |-> r.draws]

\* ------------------------------------------------------ gaussian mutation
\* mutant: the perturbation is added whatever the chance draw says
MutateGeneAlways(rng, chance, coeff, gene, i) ==
    LET s == GenBool(rng, Half)
        sign == IF s.v THEN -1 ELSE 1
        c == GenBool(s.rng, chance)
        m == GenF32(c.rng)
    IN [gene |-> gene + sign * coeff * m.v,
        rng |-> m.rng,
        draws |-> <<Draw("sign", i, rng, s.rng),
                    Draw("chance", i, s.rng, c.rng),
                    Draw("magnitude", i, c.rng, m.rng)>>]

\* mutant: the chance is drawn first and the sign only for a perturbed gene
MutateGeneChanceFirst(rng, chance, coeff, gene, i) ==
    LET c == GenBool(rng, chance)
        s == GenBool(c.rng, Half)
        sign == IF s.v THEN -1 ELSE 1
        m == GenF32(s.rng)
    IN IF c.v
       THEN [gene |-> gene + sign * coeff * m.v,
             rng |-> m.rng,
             draws |-> <<Draw("chance", i, rng, c.rng),
                         Draw("sign", i, c.rng, s.rng),
                         Draw("magnitude", i, s.rng, m.rng)>>]
       ELSE [gene |-> gene,
             rng |-> c.rng,
             draws |-> <<Draw("chance", i, rng, c.rng)>>]

MutateGene(rng, chance, coeff, gene, i) ==
    LET s == GenBool(rng, Half)
        sign == IF s.v THEN -1 ELSE 1
        c == GenBool(s.rng, chance)
        m == GenF32(c.rng)
    IN IF c.v
       THEN [gene |-> gene + sign * coeff * m.v,
             rng |-> m.rng,
             draws |-> <<Draw("sign", i, rng, s.rng),
                         Draw("chance", i, s.rng, c.rng),
                         Draw("magnitude", i, c.rng, m.rng)>>]
       ELSE [gene |-> gene,
             rng |-> c.rng,
             draws |-> <<Draw("sign", i, rng, s.rng),
                         Draw("chance", i, s.rng, c.rng)>>]

RECURSIVE MutateFrom(_, _, _, _, _)
MutateFrom(rng, chance, coeff, genes, i) ==
    IF i > Len(genes)
    THEN [genes |-> genes, rng |-> rng, draws |-> <<>>]
    ELSE LET g == MutateGene(rng, chance, coeff, genes[i], i)
             rest == MutateFrom(g.rng, chance, coeff,
                                [genes EXCEPT ![i] = g.gene], i + 1)
         IN [rest EXCEPT !.draws = g.draws \o @]

GaussianMutate(rng, chance, coeff, child) ==
    MutateFrom(rng, chance, coeff, child, 1)

\* ------------------------------------------------- roulette-wheel selection
RECURSIVE Cumulative(_, _)
Cumulative(weights, i) ==
    IF i = 0 THEN 0 ELSE Cumulative(weights, i - 1) + weights[i]

\* mutant: a zero total is not an error
WeightedErrorNoZeroTotal(weights) ==
    \/ Len(weights) = 0
    \/ \E i \in 1..Len(weights) : weights[i] < 0

\* SliceRandom::choose_weighted: Err on no item, on a negative weight and
\* on a zero total, each before any sampling
WeightedError(weights) ==
    \/ Len(weights) = 0
    \/ \E i \in 1..Len(weights) : weights[i] < 0
    \/ Cumulative(weights, Len(weights)) = 0

\* one uniform sample of [0, total); the first member whose cumulative
\* weight exceeds it
WeightedIndex(weights, raw) ==
    LET total == Cumulative(weights, Len(weights))
    IN 1 + Cardinality({i \in 1..Len(weights) :
                           Cumulative(weights, i) * RawRange <= raw * total})

RouletteWheelSelect(rng, weights) ==
    IF WeightedError(weights)
    THEN [panic |-> TRUE, idx |-> 0, rng |-> rng, draws |-> <<>>]
    ELSE LET d == NextRaw(rng)
         IN [panic |-> FALSE, idx |-> WeightedIndex(weights, d.v),
             rng |-> d.rng,
             draws |-> <<Draw("select", 0, rng, d.rng)>>]

\* ================================================================== state
VARIABLES
    population,   \* the caller's population: a sequence of chromosomes
    chance,       \* GaussianMutation.chance
    coeff,        \* GaussianMutation.coeff
    rng,          \* the caller's random source
    pc,           \* position inside evolve
    newPop,       \* children collected so far by evolve
    parentA,      \* index of parent_a in population
    parentB,      \* index of parent_b in population
    child,        \* the child being bred
    generation,   \* completed evolve calls
    log,          \* sampling calls of the current evolve call, in order
    startRng,     \* the random source when the current evolve call began
    initPop,      \* the population the run started from
    call,         \* the last direct call of an operator (SpecOps)
    threadRng,    \* rand::thread_rng(): the thread's own random source
    net,          \* the Network built last
    prevNet,      \* the Network built before it
    output        \* the last Network::propagate call

gaVars == <<population, chance, coeff, rng, pc, newPop, parentA, parentB,
            child, generation, log, startRng, initPop>>
vars == <<population, chance, coeff, rng, pc, newPop, parentA, parentB,
          child, generation, log, startRng, initPop, call, threadRng, net,
          prevNet, output>>
netVars == <<threadRng, net, prevNet, output>>

\* starting chromosomes: all 0.0, all 1.0, and 1.0, 2.0, 3.0, ..
ChromosomesOf(len) ==
    {[i \in 1..len |-> 0], [i \in 1..len |-> GeneOne],
     [i \in 1..len |-> i * GeneOne]}
PopulationsOf(len) ==
    UNION {[1..n -> ChromosomesOf(len)] : n \in 0..MaxPop}
InitPopulations == UNION {PopulationsOf(len) : len \in 1..MaxLen}

Tag(draws, k, phase) ==
    [j \in 1..Len(draws) |->
        [kind |-> draws[j].kind, gene |-> draws[j].gene,
         words |-> draws[j].words, child |-> k, phase |-> phase]]

Init ==
    /\ population \in InitPopulations
    /\ chance \in ChanceValues
    /\ coeff \in CoeffValues
    /\ rng \in {NewRng(t) : t \in TapesOf(TapeLen)}
    /\ pc = "idle"
    /\ newPop = <<>>
    /\ parentA = 0
    /\ parentB = 0
    /\ child = <<>>
    /\ generation = 0
    /\ log = <<>>
    /\ startRng = rng
    /\ initPop = population
    /\ call = [op |-> "none"]
    /\ threadRng = NewRng(<<>>)
    /\ net = [built |-> FALSE, panic |-> FALSE]
    /\ prevNet = [built |-> FALSE, panic |-> FALSE]
    /\ output = [called |-> FALSE]

\* ------------------------------------------------ GeneticAlgorithm::evolve
\* entry: (0..population.len()).map(..)
EvolveStart ==
    /\ pc = "idle"
    /\ generation < MaxGenerations
    /\ newPop' = <<>>
    /\ log' = <<>>
    /\ startRng' = rng
    /\ pc' = IF Len(population) = 0 THEN "collect" ELSE "selectA"
    /\ UNCHANGED <<population, chance, coeff, rng, parentA, parentB, child,
                   generation, initPop, call, netVars>>

SelectParentA ==
    /\ pc = "selectA"
    /\ LET r == RouletteWheelSelect(rng, FitnessOf(population))
       IN /\ rng' = r.rng
          /\ log' = log \o Tag(r.draws, Len(newPop) + 1, "selectA")
          /\ parentA' = r.idx
          /\ pc' = IF r.panic THEN "panicked" ELSE "selectB"
    /\ UNCHANGED <<population, chance, coeff, newPop, parentB, child,
                   generation, startRng, initPop, call, netVars>>

SelectParentB ==
    /\ pc = "selectB"
    /\ LET r == RouletteWheelSelect(rng, FitnessOf(population))
       IN /\ rng' = r.rng
          /\ log' = log \o Tag(r.draws, Len(newPop) + 1, "selectB")
          /\ parentB' = r.idx
          /\ pc' = IF r.panic THEN "panicked" ELSE "crossover"
    /\ UNCHANGED <<population, chance, coeff, newPop, parentA, child,
                   generation, startRng, initPop, call, netVars>>

Crossover ==
    /\ pc = "crossover"
    /\ LET r == UniformCrossover(rng, population[parentA],
                                 population[parentB])
       IN /\ rng' = r.rng
          /\ log' = log \o Tag(r.draws, Len(newPop) + 1, "crossover")
          /\ child' = r.child
          /\ pc' = IF r.panic THEN "panicked" ELSE "mutate"
    /\ UNCHANGED <<population, chance, coeff, newPop, parentA, parentB,
                   generation, startRng, initPop, call, netVars>>

Mutate ==
    /\ pc = "mutate"
    /\ LET r == GaussianMutate(rng, chance, coeff, child)
       IN /\ rng' = r.rng
          /\ log' = log \o Tag(r.draws, Len(newPop) + 1, "mutate")
          /\ child' = r.genes
          /\ pc' = "create"
    /\ UNCHANGED <<population, chance, coeff, newPop, parentA, parentB,
                   generation, startRng, initPop, call, netVars>>

\* mutant: the map runs over one index too few
CreateOneShort ==
    /\ pc = "create"
    /\ newPop' = Append(newPop, child)
    /\ pc' = IF Len(newPop) + 1 >= Len(population) - 1 THEN "collect"
             ELSE "selectA"
    /\ UNCHANGED <<population, chance, coeff, rng, parentA, parentB, child,
                   generation, log, startRng, initPop, call, netVars>>

\* mutant: creating the individual reads the random source
CreateDrawing ==
    /\ pc = "create"
    /\ newPop' = Append(newPop, child)
    /\ rng' = NextRaw(rng).rng
    /\ pc' = IF Len(newPop) + 1 = Len(population) THEN "collect"
             ELSE "selectA"
    /\ UNCHANGED <<population, chance, coeff, parentA, parentB, child,
                   generation, log, startRng, initPop, call, netVars>>

\* I::create(child), pushed by collect
Create ==
    /\ pc = "create"
    /\ newPop' = Append(newPop, child)
    /\ pc' = IF Len(newPop) + 1 = Len(population) THEN "collect"
             ELSE "selectA"
    /\ UNCHANGED <<population, chance, coeff, rng, parentA, parentB, child,
                   generation, log, startRng, initPop, call, netVars>>

\* evolve returns; the caller stores the result: population = ga.evolve(..)
EvolveReturn ==
    /\ pc = "collect"
    /\ population' = newPop
    /\ generation' = generation + 1
    /\ pc' = "idle"
    /\ UNCHANGED <<chance, coeff, rng, newPop, parentA, parentB, child, log,
                   startRng, initPop, call, netVars>>

Next ==
    \/ EvolveStart
    \/ SelectParentA
    \/ SelectParentB
    \/ Crossover
    \/ Mutate
    \/ Create
    \/ EvolveReturn

Spec == Init /\ [][Next]_vars

\* ============================================== direct calls of an operator
OpGenes == {-GeneOne, 0, GeneOne}
OpChromosomes == UNION {[1..n -> OpGenes] : n \in 0..MaxLen}
\* fitness values of TestIndividual::WithFitness
OpWeights == {-1, 0, 1, 2}
OpPopulations == UNION {[1..n -> OpWeights] : n \in 0..MaxPop}

InitOps ==
    /\ population = <<>>
    /\ chance = <<0, 2>>
    /\ coeff = 0
    /\ rng = NewRng(<<0>>)
    /\ pc = "idle"
    /\ newPop = <<>>
    /\ parentA = 0
    /\ parentB = 0
    /\ child = <<>>
    /\ generation = 0
    /\ log = <<>>
    /\ startRng = rng
    /\ initPop = population
    /\ call = [op |-> "none"]
    /\ threadRng = NewRng(<<>>)
    /\ net = [built |-> FALSE, panic |-> FALSE]
    /\ prevNet = [built |-> FALSE, panic |-> FALSE]
    /\ output = [called |-> FALSE]

\* UniformCrossover::new().crossover(&mut rng, &parent_a, &parent_b)
CallCrossover ==
    /\ call.op = "none"
    /\ \E a \in OpChromosomes, b \in OpChromosomes, t \in TapesOf(MaxLen) :
          call' = [op |-> "crossover", parent_a |-> a, parent_b |-> b,
                   rng |-> NewRng(t),
                   result |-> UniformCrossover(NewRng(t), a, b)]
    /\ UNCHANGED <<gaVars, netVars>>

\* GaussianMutation::new(chance, coeff).mutate(&mut rng, &mut child)
CallMutate ==
    /\ call.op = "none"
    /\ \E ch \in ChanceValues, co \in CoeffValues, g \in OpChromosomes,
          t \in TapesOf(3 * MaxLen) :
          call' = [op |-> "mutate", chance |-> ch, coeff |-> co,
                   child |-> g, rng |-> NewRng(t),
                   result |-> GaussianMutate(NewRng(t), ch, co, g)]
    /\ UNCHANGED <<gaVars, netVars>>

\* RouletteWheelSelection::new().select(&mut rng, &population)
CallSelect ==
    /\ call.op = "none"
    /\ \E w \in OpPopulations, t \in TapesOf(2) :
          call' = [op |-> "select", population |-> w, rng |-> NewRng(t),
                   picks |-> <<RouletteWheelSelect(NewRng(t), w)>>]
    /\ UNCHANGED <<gaVars, netVars>>

\* a second select on the same population with the same random source
CallSelectAgain ==
    /\ call.op = "select"
    /\ Len(call.picks) = 1
    /\ ~call.picks[1].panic
    /\ call' = [call EXCEPT !.picks =
                   Append(@, RouletteWheelSelect(call.picks[1].rng,
                                                 call.population))]
    /\ UNCHANGED <<gaVars, netVars>>

NextOps ==
    \/ CallCrossover
    \/ CallMutate
    \/ CallSelect
    \/ CallSelectAgain

SpecOps == InitOps /\ [][NextOps]_vars

\* ========================================================= neural network
\* Rng::gen_range(-1.0..=1.0): one word, spread evenly over [-1, 1], in
\* units of 1/(RawRange - 1)
GenRange(r) ==
    LET d == NextRaw(r)
    IN [v |-> 2 * d.v - (RawRange - 1), rng |-> d.rng]

RECURSIVE RandomWeights(_, _)
RandomWeights(r, n) ==
    IF n = 0
    THEN [weights |-> <<>>, rng |-> r]
    ELSE LET w == GenRange(r)
             rest == RandomWeights(w.rng, n - 1)
         IN [weights |-> <<w.v>> \o rest.weights, rng |-> rest.rng]

\* Neuron::random(rng, output_size): the bias, then the weights in order
NeuronRandom(r, output_size) ==
    LET b == GenRange(r)
        w == RandomWeights(b.rng, output_size)
    IN [neuron |-> [bias |-> b.v, weights |-> w.weights], rng |-> w.rng]

RECURSIVE RandomNeurons(_, _, _)
RandomNeurons(r, input_neurons, n) ==
    IF n = 0
    THEN [neurons |-> <<>>, rng |-> r]
    ELSE LET x == NeuronRandom(r, input_neurons)
             rest == RandomNeurons(x.rng, input_neurons, n - 1)
         IN [neurons |-> <<x.neuron>> \o rest.neurons, rng |-> rest.rng]

\* Layer::random(input_neurons, output_neurons): the random source is
\* rand::thread_rng(), the thread's generator, passed here as trng
LayerRandom(trng, input_neurons, output_neurons) ==
    RandomNeurons(trng, input_neurons, output_neurons)

RECURSIVE RandomLayers(_, _, _)
RandomLayers(trng, topology, i) ==
    IF i >= Len(topology)
    THEN [layers |-> <<>>, rng |-> trng]
    ELSE LET l == LayerRandom(trng, topology[i], topology[i + 1])
             rest == RandomLayers(l.rng, topology, i + 1)
         IN [layers |-> <<l.neurons>> \o rest.layers, rng |-> rest.rng]

\* Network::random(layers): assert!(layers.len() > 1), then one Layer per
\* window of two sizes
NetworkRandom(trng, topology) ==
    IF ~(Len(topology) > 1)
    THEN [panic |-> TRUE, layers |-> <<>>, rng |-> trng]
    ELSE LET r == RandomLayers(trng, topology, 1)
         IN [panic |-> FALSE, layers |-> r.layers, rng |-> r.rng]

RECURSIVE Dot(_, _)
Dot(inputs, weights) ==
    IF inputs = <<>> \/ weights = <<>>
    THEN 0
    ELSE Head(inputs) * Head(weights) + Dot(Tail(inputs), Tail(weights))

\* mutant: no rectification of the sum
NeuronPropagateLinear(neuron, inputs) ==
    IF Len(inputs) # Len(neuron.weights)
    THEN [panic |-> TRUE, v |-> 0]
    ELSE [panic |-> FALSE, v |-> neuron.bias + Dot(inputs, neuron.weights)]

\* Neuron::propagate
NeuronPropagate(neuron, inputs) ==
    IF Len(inputs) # Len(neuron.weights)
    THEN [panic |-> TRUE, v |-> 0]
    ELSE LET sum == neuron.bias + Dot(inputs, neuron.weights)
         IN [panic |-> FALSE, v |-> IF sum > 0 THEN sum ELSE 0]

\* Layer::propagate
LayerPropagate(neurons, inputs) ==
    LET out == [i \in 1..Len(neurons) |-> NeuronPropagate(neurons[i], inputs)]
    IN [panic |-> \E i \in 1..Len(neurons) : out[i].panic,
        values |-> [i \in 1..Len(neurons) |-> out[i].v]]

\* Network::propagate
RECURSIVE PropagateFrom(_, _, _)
PropagateFrom(layers, inputs, i) ==
    IF i > Len(layers)
    THEN [panic |-> FALSE, values |-> inputs]
    ELSE LET o == LayerPropagate(layers[i], inputs)
         IN IF o.panic
            THEN [panic |-> TRUE, values |-> <<>>]
            ELSE PropagateFrom(layers, o.values, i + 1)

NetworkPropagate(layers, inputs) == PropagateFrom(layers, inputs, 1)

\* the words one construction reads: per layer, a bias and one weight per
\* input for every neuron
RECURSIVE WordsNeeded(_, _)
WordsNeeded(topology, i) ==
    IF i >= Len(topology) THEN 0
    ELSE topology[i + 1] * (1 + topology[i]) + WordsNeeded(topology, i + 1)

Topologies ==
    {t \in UNION {[1..n -> 1..MaxNeurons] : n \in 1..MaxLayers} :
        WordsNeeded(t, 1) <= MaxWords}
InputValues == {-1, 2}
InputVectors == UNION {[1..n -> InputValues] : n \in 0..MaxNeurons}

InitNet ==
    /\ population = <<>>
    /\ chance = <<0, 2>>
    /\ coeff = 0
    /\ rng = NewRng(<<0>>)
    /\ pc = "idle"
    /\ newPop = <<>>
    /\ parentA = 0
    /\ parentB = 0
    /\ child = <<>>
    /\ generation = 0
    /\ log = <<>>
    /\ startRng = rng
    /\ initPop = population
    /\ call = [op |-> "none"]
    /\ threadRng = NewRng(<<>>)
    /\ net = [built |-> FALSE, panic |-> FALSE]
    /\ prevNet = [built |-> FALSE, panic |-> FALSE]
    /\ output = [called |-> FALSE]

Built(trng, topology, caller) ==
    LET r == NetworkRandom(trng, topology)
    IN [built |-> ~r.panic, panic |-> r.panic, topology |-> topology,
        layers |-> r.layers, caller |-> caller, rng |-> r.rng]

\* rand::thread_rng(): the thread's generator is seeded from the system's
\* entropy, so the words it yields next are any words; the tape holds the
\* words read so far followed by the next n
ThreadRngs(n) ==
    {[threadRng EXCEPT !.tape = @ \o t] : t \in TapesOf(n)}

\* Network::random(&topology), the caller holding the random source rng
BuildNetwork ==
    /\ ~net.built
    /\ ~net.panic
    /\ \E topology \in Topologies :
          \E trng \in ThreadRngs(WordsNeeded(topology, 1)) :
              /\ net' = Built(trng, topology, rng)
              /\ threadRng' = net'.rng
    /\ prevNet' = net
    /\ output' = [called |-> FALSE]
    /\ UNCHANGED <<gaVars, call>>

\* Network::random again, from the same topology and the same caller
BuildNetworkAgain ==
    /\ net.built
    /\ ~prevNet.built
    /\ \E trng \in ThreadRngs(WordsNeeded(net.topology, 1)) :
          /\ net' = Built(trng, net.topology, rng)
          /\ threadRng' = net'.rng
    /\ prevNet' = net
    /\ output' = [called |-> FALSE]
    /\ UNCHANGED <<gaVars, call>>

\* network.propagate(inputs)
Propagate ==
    /\ net.built
    /\ \E inputs \in InputVectors :
          output' = [called |-> TRUE, inputs |-> inputs,
                     result |-> NetworkPropagate(net.layers, inputs)]
    /\ UNCHANGED <<gaVars, call, threadRng, net, prevNet>>

NextNet ==
    \/ BuildNetwork
    \/ BuildNetworkAgain
    \/ Propagate

SpecNet == InitNet /\ [][NextNet]_vars

\* =============================================================== claims
\* ---- helpers of the claims
RECURSIVE WordsOf(_)
WordsOf(draws) ==
    IF draws = <<>> THEN 0 ELSE Head(draws).words + WordsOf(Tail(draws))

PhaseNo(phase) ==
    CASE phase = "selectA" -> 0
      [] phase = "selectB" -> 1
      [] phase = "crossover" -> 2
      [] phase = "mutate" -> 3

KindNo(kind) ==
    CASE kind = "select" -> 0
      [] kind = "flip" -> 0
      [] kind = "sign" -> 0
      [] kind = "chance" -> 1
      [] kind = "magnitude" -> 2

KindsOfPhase(phase) ==
    CASE phase = "selectA" -> {"select"}
      [] phase = "selectB" -> {"select"}
      [] phase = "crossover" -> {"flip"}
      [] phase = "mutate" -> {"sign", "chance", "magnitude"}

\* d comes strictly before e in the order (child, phase, gene, kind)
DrawBefore(d, e) ==
    \/ d.child < e.child
    \/ /\ d.child = e.child
       /\ \/ PhaseNo(d.phase) < PhaseNo(e.phase)
          \/ /\ d.phase = e.phase
             /\ \/ d.gene < e.gene
                \/ d.gene = e.gene /\ KindNo(d.kind) < KindNo(e.kind)

CountOf(draws, k, phase, kind, gene) ==
    Cardinality({j \in 1..Len(draws) :
        /\ draws[j].child = k /\ draws[j].phase = phase
        /\ draws[j].kind = kind /\ draws[j].gene = gene})

\* the draws of a finished child k whose chromosome has length len
ChildDrawsComplete(draws, k, len) ==
    /\ CountOf(draws, k, "selectA", "select", 0) = 1
    /\ CountOf(draws, k, "selectB", "select", 0) = 1
    /\ \A g \in 1..len :
          /\ CountOf(draws, k, "crossover", "flip", g) = 1
          /\ CountOf(draws, k, "mutate", "sign", g) = 1
          /\ CountOf(draws, k, "mutate", "chance", g) = 1
          /\ CountOf(draws, k, "mutate", "magnitude", g) <= 1

\* C1: evolve returns as many members as it was given, so the population
\* size never changes over successive evolve calls.
C1_PopulationSize ==
    /\ pc = "collect" => Len(newPop) = Len(population)
    /\ pc = "idle" => Len(population) = Len(initPop)

C1_Witness ==
    /\ pc = "idle"
    /\ generation >= 2
    /\ Len(population) >= 2
    /\ population # initPop

\* C2: the draws of one evolve call come child by child, and for a child
\* in the order select A, select B, crossover flips, mutation draws; every
\* word read from the random source belongs to one of these draws, so
\* creating the individual reads none.
C2_DrawOrder ==
    /\ \A j \in 1..(Len(log) - 1) : DrawBefore(log[j], log[j + 1])
    /\ \A j \in 1..Len(log) :
          /\ log[j].kind \in KindsOfPhase(log[j].phase)
          /\ log[j].child \in 1..Len(population)
    /\ pc # "idle" => rng.pos - startRng.pos = WordsOf(log)
    /\ \A k \in 1..Len(newPop) :
          ChildDrawsComplete(log, k, Len(newPop[k]))

C2_Witness ==
    /\ pc = "collect"
    /\ Len(newPop) >= 2
    /\ \E j \in 1..Len(log) : log[j].kind = "magnitude" /\ log[j].child = 1
    /\ \E j \in 1..Len(log) : log[j].kind = "select" /\ log[j].child = 2

\* C3: when all members of the starting population have chromosomes of
\* length L, every member of every later population, every collected
\* child and every child after crossover and after mutation has length L.
C3_LengthFixed ==
    (\A i \in 1..Len(initPop) : Len(initPop[i]) = Len(initPop[1])) =>
        /\ \A i \in 1..Len(population) :
              Len(population[i]) = Len(initPop[1])
        /\ \A i \in 1..Len(newPop) : Len(newPop[i]) = Len(initPop[1])
        /\ pc \in {"mutate", "create"} => Len(child) = Len(initPop[1])

C3_Witness ==
    /\ pc = "idle"
    /\ generation >= 2
    /\ Len(population) >= 1
    /\ Len(population[1]) >= 2
    /\ \A i \in 1..Len(initPop) : Len(initPop[i]) = Len(population[1])
    /\ \A i \in 1..Len(initPop) : population[1] # initPop[i]

\* ---- helpers of the claims about one operator call
HasDraw(d, kind, g) ==
    \E j \in 1..Len(d) : d[j].kind = kind /\ d[j].gene = g

IdxOf(d, kind, g) ==
    CHOOSE j \in 1..Len(d) : d[j].kind = kind /\ d[j].gene = g

NumOf(d, kind, g) ==
    Cardinality({j \in 1..Len(d) : d[j].kind = kind /\ d[j].gene = g})

\* the word of the tape that the j-th draw of d reads
WordAt(d, tape, j) == tape[WordsOf(SubSeq(d, 1, j - 1)) + 1]

\* C4: on parents of equal length L crossover makes exactly L flips, one
\* word each, for the positions 1..L in order; the child's gene i is
\* parent A's when the i-th word of the stream is below one half (the flip
\* is true) and parent B's otherwise.
C4_CrossoverGenes ==
    (call.op = "crossover" /\ Len(call.parent_a) = Len(call.parent_b)) =>
        LET r == call.result
            L == Len(call.parent_a)
        IN /\ ~r.panic
           /\ Len(r.child) = L
           /\ Len(r.draws) = L
           /\ r.rng = [call.rng EXCEPT !.pos = L]
           /\ \A i \in 1..L :
                 /\ r.draws[i] = [kind |-> "flip", gene |-> i, words |-> 1]
                 /\ r.child[i] = IF call.rng.tape[i] * 2 < RawRange
                                 THEN call.parent_a[i]
                                 ELSE call.parent_b[i]
                 /\ r.child[i] \in {call.parent_a[i], call.parent_b[i]}

C4_Witness ==
    /\ call.op = "crossover"
    /\ Len(call.parent_a) = 2
    /\ Len(call.parent_b) = 2
    /\ call.parent_a[1] # call.parent_b[1]
    /\ call.parent_a[2] # call.parent_b[2]
    /\ call.result.child[1] = call.parent_a[1]
    /\ call.result.child[2] = call.parent_b[2]

\* C5: on parents of different lengths crossover fails, with no child, no
\* draw and the random source untouched.
C5_CrossoverLengthMismatch ==
    (call.op = "crossover" /\ Len(call.parent_a) # Len(call.parent_b)) =>
        /\ call.result.panic
        /\ call.result.child = <<>>
        /\ call.result.draws = <<>>
        /\ call.result.rng = call.rng

C5_Witness ==
    /\ call.op = "crossover"
    /\ Len(call.parent_a) = 2
    /\ Len(call.parent_b) = 1
    /\ call.result.panic

\* C6: with chance = 0 mutate returns every gene as it was, for every
\* coefficient and every stream, and still reads two words per gene, the
\* sign draw and the chance draw, so the random source has moved whenever
\* the chromosome is not empty.
C6_ZeroChance ==
    (call.op = "mutate" /\ call.chance[1] = 0) =>
        LET r == call.result
            L == Len(call.child)
        IN /\ r.genes = call.child
           /\ r.rng.pos = call.rng.pos + 2 * L
           /\ L > 0 => r.rng # call.rng
           /\ Len(r.draws) = 2 * L
           /\ \A g \in 1..L :
                 /\ r.draws[2 * g - 1] =
                        [kind |-> "sign", gene |-> g, words |-> 1]
                 /\ r.draws[2 * g] =
                        [kind |-> "chance", gene |-> g, words |-> 1]

C6_Witness ==
    /\ call.op = "mutate"
    /\ call.chance[1] = 0
    /\ call.coeff # 0
    /\ Len(call.child) = 2
    /\ \A j \in 1..Len(call.rng.tape) : call.rng.tape[j] = 0
    /\ call.result.rng.pos = 4

\* C7: mutate handles the genes in position order; for every gene the
\* sign is drawn first and the chance second, whatever the chance draw
\* gives; the magnitude is drawn third, and exactly when the chance draw
\* succeeds, and then sign * coeff * magnitude is added to that gene; a
\* gene whose chance draw fails keeps its value.
C7_MutateDrawOrder ==
    call.op = "mutate" =>
        LET r == call.result
            d == call.result.draws
            t == call.rng.tape
            L == Len(call.child)
            hit(g) ==
                \/ call.chance[1] = call.chance[2]
                \/ WordAt(d, t, IdxOf(d, "chance", g)) * call.chance[2]
                       < call.chance[1] * RawRange
            sign(g) ==
                IF WordAt(d, t, IdxOf(d, "sign", g)) * 2 < RawRange
                THEN -1 ELSE 1
        IN /\ Len(r.genes) = L
           /\ r.rng.pos = call.rng.pos + WordsOf(d)
           /\ \A j \in 1..Len(d) :
                 /\ d[j].gene \in 1..L
                 /\ d[j].kind \in {"sign", "chance", "magnitude"}
           /\ \A j \in 1..(Len(d) - 1) :
                 \/ d[j].gene < d[j + 1].gene
                 \/ /\ d[j].gene = d[j + 1].gene
                    /\ KindNo(d[j].kind) < KindNo(d[j + 1].kind)
           /\ \A g \in 1..L :
                 /\ NumOf(d, "sign", g) = 1
                 /\ NumOf(d, "chance", g) = 1
                 /\ d[IdxOf(d, "sign", g)].words = 1
                 /\ IdxOf(d, "chance", g) = IdxOf(d, "sign", g) + 1
                 /\ HasDraw(d, "magnitude", g) <=> hit(g)
                 /\ hit(g) =>
                       /\ NumOf(d, "magnitude", g) = 1
                       /\ d[IdxOf(d, "magnitude", g)].words = 1
                       /\ IdxOf(d, "magnitude", g) =
                              IdxOf(d, "chance", g) + 1
                       /\ r.genes[g] = call.child[g] + sign(g) * call.coeff
                              * WordAt(d, t, IdxOf(d, "magnitude", g))
                 /\ ~hit(g) => r.genes[g] = call.child[g]

C7_Witness ==
    /\ call.op = "mutate"
    /\ call.chance = Half
    /\ Len(call.child) = 2
    /\ HasDraw(call.result.draws, "magnitude", 1)
    /\ call.result.genes[1] < call.child[1]
    /\ ~HasDraw(call.result.draws, "magnitude", 2)
    /\ call.result.genes[2] = call.child[2]

\* C8: select fails, returning no member, on an empty population and on
\* one whose members all have fitness <= 0; when it returns, it returns
\* the index of a member of the population, which stays as it was, so a
\* second select on it may return the same member.
C8_SelectFailsOrReturnsMember ==
    call.op = "select" =>
        \A k \in 1..Len(call.picks) :
            LET r == call.picks[k]
                w == call.population
            IN /\ (Len(w) = 0 \/ \A i \in 1..Len(w) : w[i] <= 0) =>
                      (r.panic /\ r.idx = 0 /\ r.draws = <<>>)
               /\ r.panic => r.idx = 0
               /\ ~r.panic => (r.idx \in 1..Len(w) /\ w[r.idx] > 0)

C8_Witness ==
    /\ call.op = "select"
    /\ Len(call.picks) = 2
    /\ Len(call.population) = 2
    /\ \A i \in 1..2 : call.population[i] > 0
    /\ ~call.picks[1].panic
    /\ ~call.picks[2].panic
    /\ call.picks[1].idx = call.picks[2].idx

\* ---- helpers of the claims about the network
RECURSIVE SumTo(_, _, _)
SumTo(x, w, n) == IF n = 0 THEN 0 ELSE SumTo(x, w, n - 1) + x[n] * w[n]

\* max(0, bias + sum over j of input_j * weight_j), for every neuron
Rectified(neurons, x) ==
    [i \in 1..Len(neurons) |->
        LET a == neurons[i].bias + SumTo(x, neurons[i].weights, Len(x))
        IN IF a >= 0 THEN a ELSE 0]

RECURSIVE Forward(_, _, _)
Forward(layers, x, i) ==
    IF i > Len(layers) THEN x
    ELSE Forward(layers, Rectified(layers[i], x), i + 1)

\* C9: two constructions of a Network from the same topology, the caller
\* holding the same random-source state at both, give identical biases
\* and weights.
C9_SameSourceSameNetwork ==
    (/\ net.built
     /\ prevNet.built
     /\ net.topology = prevNet.topology
     /\ net.caller = prevNet.caller) =>
        net.layers = prevNet.layers

\* C10: propagate fails exactly when the input has not as many entries
\* as the neurons of the first layer have weights; otherwise it returns
\* one value per neuron of the last layer, each >= 0, equal to the layers
\* applied in order with max(0, bias + sum of input * weight) in every
\* layer, the last included.
C10_Propagate ==
    (net.built /\ output.called) =>
        LET r == output.result
            x == output.inputs
        IN /\ r.panic <=> Len(x) # net.topology[1]
           /\ ~r.panic =>
                 /\ Len(r.values) = net.topology[Len(net.topology)]
                 /\ \A i \in 1..Len(r.values) : r.values[i] >= 0
                 /\ r.values = Forward(net.layers, x, 1)

C10_Witness ==
    /\ net.built
    /\ output.called
    /\ Len(net.layers) = 2
    /\ ~output.result.panic
    /\ net.layers[1][1].bias
          + SumTo(output.inputs, net.layers[1][1].weights,
                  Len(output.inputs)) < 0
    /\ output.result.values[1] > 0

====
